---- MODULE Spec2Model ----
(***************************************************************************)
(* A model of the research pipeline of src/main.ts: deepResearch, the two  *)
(* task runners (processWebResearch, processAiResearch), fetchWebContent,  *)
(* getRelevantUrls, summarizeContent and the CLI action that writes the    *)
(* report.                                                                 *)
(*                                                                         *)
(* One action of the model is one job of the JavaScript event loop: the    *)
(* resolution of one external call (search, fetch, generateObject,         *)
(* generateText, writeTextFile) together with every synchronous statement  *)
(* and every promise continuation that runs before control returns to the  *)
(* event loop.  A fetch and the reading of its body (fetch, then .json())   *)
(* are two calls and two jobs: between them the runner is suspended and     *)
(* jobs of other branches run.                                              *)
(*                                                                         *)
(* Strings are kept as run-length sequences of integers: n > 0 stands for  *)
(* n characters that are no line terminator, n < 0 for -n line terminator  *)
(* characters.  The only thing the program does with the characters of a   *)
(* page is to measure and to split them, and both depend on nothing else.  *)
(***************************************************************************)
EXTENDS Integers, Sequences, FiniteSets, TLC

VARIABLES
    scope,      \* what the run faces: "task", "pipeline" or "search" (see Init)
    pc,         \* position of the CLI action / deepResearch
    plan,       \* plan.researchPlan, the list of research tasks
    runs,       \* one record per runner started by the map callback
    summaries,  \* the value array of the outer Promise.all
    reportIn,   \* the `summaries` the final report prompt was built from
    report,     \* the text deepResearch returned
    file,       \* contents of report.md
    finished,   \* history: the tasks whose runner returned, in the order they did
    failure     \* history: what made the run fail, "none" while nothing did

vars == <<scope, pc, plan, runs, summaries, reportIn, report, file, finished, failure>>

\* ------------------------------------------------------------------ bounds
MaxTasks == 2       \* longest plan the planner returns (scope "pipeline")
MaxSelected == 2    \* most URLs the selector returns (scope "task")
MaxAnswered == 6    \* search requests of one task the Search Provider answers

\* ------------------------------------------------------- program constants
MAX_PAGES == 5
chunkSize == 10000
minContentLength == 100
okStatus == 200

\* ------------------------------------------------------------------ values
\* f(arg) as JavaScript calls a function: the argument is a value, computed
\* once, before the body runs.
invoke(f(_), arg) == CHOOSE result \in {f(value) : value \in {arg}} : TRUE

RECURSIVE SumLen(_)
\* String.length of a run-length string
SumLen(s) ==
    IF s = <<>> THEN 0
    ELSE (IF Head(s) < 0 THEN -Head(s) ELSE Head(s)) + SumLen(Tail(s))

\* A text the Generative Text Service returned: the call that produced it.
\* call is "map", "reduce", "answer", "ai" or "report"; task, page and part
\* say which task, which valid page of it and which chunk the call was for.
Text(call, task, page, part) ==
    [call |-> call, task |-> task, page |-> page, part |-> part]
NoText == Text("none", 0, 0, 0)
UndefinedText == Text("undefined", 0, 0, 0)     \* chunkSummaries[0] of []

\* URLs: the hit the Search Provider lists on page n, and a URL it never lists.
HitUrl(n) == [site |-> "hit", n |-> n]
OtherUrl == [site |-> "other", n |-> 0]
TitleOf(url) == [titleOf |-> url]

\* The hits the Search Provider returns for a page that has results.
PageHits(page) ==
    << [title |-> TitleOf(HitUrl(page)), url |-> HitUrl(page), content |-> <<20>>] >>

\* ------------------------------------------------------------ the services
\* The services answer as they like; a behaviour is explored in one of three
\* scopes, which bound what they answer with:
\*   "task"      a plan of at most one task, every kind of answer of every
\*               service, up to MaxSelected selected URLs;
\*   "pipeline"  a plan of up to MaxTasks tasks of any types, one page of hits,
\*               at most one selected URL, three kinds of answer to its fetch;
\*   "search"    a plan of at most one task, every kind of answer of the
\*               Search Provider, the other services as in "pipeline".

SearchRaise == [net |-> "raise", decodable |-> FALSE, hasResults |-> FALSE, results |-> <<>>]
SearchEmpty == [net |-> "ok", decodable |-> TRUE, hasResults |-> TRUE, results |-> <<>>]
SearchHits(page) ==
    [net |-> "ok", decodable |-> TRUE, hasResults |-> TRUE, results |-> PageHits(page)]

\* What one search request can come to: the request raises, the response is
\* no JSON, the JSON has no `results`, or it has a (possibly empty) list.
SearchOutcomes(sc, page) ==
    IF sc \in {"task", "search"}
    THEN { SearchRaise, SearchEmpty, SearchHits(page),
           [net |-> "ok", decodable |-> FALSE, hasResults |-> FALSE, results |-> <<>>],
           [net |-> "ok", decodable |-> TRUE, hasResults |-> FALSE, results |-> <<>>] }
    ELSE IF page = 1 THEN {SearchRaise, SearchEmpty, SearchHits(page)}
    ELSE {SearchEmpty}

\* The JSON value the URL parser answers with: {title, content, url}.
Data(url, hasContent, content) ==
    [title |-> TitleOf(url), url |-> url, hasContent |-> hasContent, content |-> content]
NoData == Data(OtherUrl, FALSE, <<>>)

\* Page texts the Content Fetcher may return.
Contents ==
    { <<minContentLength - 1>>,     \* one character short
      <<minContentLength>>,         \* exactly the minimum
      <<60, -1, 60>>,               \* two lines
      <<chunkSize>>,                \* exactly one chunk
      <<chunkSize + 1>> }           \* one character more than a chunk

FetchRaise == [net |-> "raise", status |-> 0, decodable |-> FALSE, data |-> NoData]
FetchStatus(status, data) ==
    [net |-> "ok", status |-> status, decodable |-> TRUE, data |-> data]

\* What one page request can come to.
FetchOutcomes(sc, url) ==
    IF sc = "task"
    THEN { FetchRaise,
           FetchStatus(404, Data(url, TRUE, <<minContentLength>>)),
           [net |-> "ok", status |-> okStatus, decodable |-> FALSE, data |-> NoData],
           FetchStatus(okStatus, Data(url, FALSE, <<>>)),
           FetchStatus(okStatus, Data(OtherUrl, TRUE, <<minContentLength>>)) }
         \cup {FetchStatus(okStatus, Data(url, TRUE, c)) : c \in Contents}
    ELSE { FetchRaise,
           FetchStatus(404, Data(url, TRUE, <<minContentLength>>)),
           FetchStatus(okStatus, Data(url, TRUE, <<60, -1, 60>>)) }

\* URLs the selector may answer with: the hit of the first page (whether or not
\* the search came to list it) and a URL that is no hit at all.
SelectableUrls == {HitUrl(1), OtherUrl}

RECURSIVE SeqsUpTo(_, _)
SeqsUpTo(S, n) ==
    IF n = 0 THEN {<<>>}
    ELSE LET shorter == SeqsUpTo(S, n - 1)
         IN shorter \cup {Append(s, x) : s \in {t \in shorter : Len(t) = n - 1}, x \in S}

Selections(sc) ==
    IF sc = "task" THEN SeqsUpTo(SelectableUrls, MaxSelected)
    ELSE {<<>>, <<HitUrl(1)>>}

\* The plans the planner may answer with.
Research(i, type) ==
    [index |-> i, type |-> type, title |-> <<"title", i>>, query |-> <<"query", i>>]
Plans(sc) ==
    { [i \in 1..Len(ts) |-> Research(i, ts[i])] : ts \in
        SeqsUpTo({"web", "ai"}, IF sc = "pipeline" THEN MaxTasks ELSE 1) }

\* ------------------------------------------------------- fetchWebContent
Throw == [tag |-> "throw", data |-> NoData]
NullContent == [tag |-> "null", data |-> NoData]
PendingContent == [tag |-> "pending", data |-> NoData]     \* in `await fetch(...)`
ReadingContent == [tag |-> "reading", data |-> NoData]     \* in `await res.json()`

\* The call has not returned or thrown yet.
inFlight(content) == content.tag \in {"pending", "reading"}

\* What the program has of a response once `await fetch(...)` resolved: the
\* status; the body is not read yet.
Headers(status) == [net |-> "headers", status |-> status, decodable |-> FALSE, data |-> NoData]
headersOf(out) == IF out.net = "raise" THEN out ELSE Headers(out.status)

\* A fetchWebContent that does not look at the status.
fetchWebContentAnyStatus(res) ==
    IF res.net = "raise" THEN Throw
    ELSE IF res.net = "headers" THEN ReadingContent
    ELSE IF ~res.decodable THEN Throw
    ELSE IF ~res.data.hasContent \/ SumLen(res.data.content) < minContentLength
         THEN NullContent
    ELSE [tag |-> "page", data |-> res.data]

\* fetchWebContent on what has come of its request so far: it throws what the
\* request throws, answers null for a status other than 200, else reads the
\* body; it throws what the decoding throws, answers null for a page it
\* rejects, else the page.
fetchWebContent(res) ==
    IF res.net = "raise" THEN Throw
    ELSE IF res.status # okStatus THEN NullContent
    ELSE IF res.net = "headers" THEN ReadingContent
    ELSE IF ~res.decodable THEN Throw
    ELSE IF ~res.data.hasContent \/ SumLen(res.data.content) < minContentLength
         THEN NullContent
    ELSE [tag |-> "page", data |-> res.data]

\* contents.filter(content => content !== null)
RECURSIVE validContentsOf(_)
validContentsOf(contents) ==
    IF contents = <<>> THEN <<>>
    ELSE IF Head(contents).tag = "null" THEN validContentsOf(Tail(contents))
    ELSE <<Head(contents).data>> \o validContentsOf(Tail(contents))

\* validContents.map(content => ({url: content.url, title: content.title}))
referencesOf(validContents) ==
    [j \in 1..Len(validContents) |->
        [url |-> validContents[j].url, title |-> validContents[j].title]]

\* ------------------------------------------------------ summarizeContent
\* The matches of /.{1,chunkSize}/g inside one maximal run of n characters that
\* are no line terminator: full chunks, then the rest.
RunChunks(n) ==
    [k \in 1..((n + chunkSize - 1) \div chunkSize) |->
        << IF k * chunkSize <= n THEN chunkSize ELSE n % chunkSize >>]

RECURSIVE ChunksFrom(_, _)
\* s: the rest of the string; acc: characters of the run being read
ChunksFrom(s, acc) ==
    IF s = <<>> THEN RunChunks(acc)
    ELSE IF Head(s) > 0 THEN ChunksFrom(Tail(s), acc + Head(s))
    ELSE RunChunks(acc) \o ChunksFrom(Tail(s), 0)

\* content.match(new RegExp(`.{1,${chunkSize}}`, "g")) || []
chunksOf(content) == ChunksFrom(content, 0)

\* if (chunkSummaries.length > 1): the second level summarization is needed
needsReduce(chunkSummaries) == Len(chunkSummaries) > 1

PendingText == Text("pending", 0, 0, 0)

\* summarizeContent up to its first suspension: the chunks are cut and one
\* generateText call per chunk is issued.  With no chunk at all Promise.all
\* resolves at once and chunkSummaries[0], undefined, is returned.
startSummarize(data) ==
    LET chunks == chunksOf(data.content)
    IN [ content |-> data,
         chunks |-> chunks,
         chunkSummaries |-> [c \in 1..Len(chunks) |-> PendingText],
         mapCalls |-> Len(chunks),
         reduceCalls |-> 0,
         reducing |-> FALSE,
         done |-> Len(chunks) = 0,
         summary |-> IF Len(chunks) = 0 THEN UndefinedText ELSE PendingText ]

\* One chunk's generateText call resolved with `text`; when it was the last one
\* the Promise.all continuation runs: the reduce call is issued, or the only
\* chunk summary is returned.
chunkSummarized(pg, c, text) ==
    LET cs == [pg.chunkSummaries EXCEPT ![c] = text]
        all == \A k \in DOMAIN cs : cs[k] # PendingText
    IN IF ~all THEN [pg EXCEPT !.chunkSummaries = cs]
       ELSE IF needsReduce(cs)
            THEN [pg EXCEPT !.chunkSummaries = cs, !.reducing = TRUE, !.reduceCalls = @ + 1]
       ELSE [pg EXCEPT !.chunkSummaries = cs, !.done = TRUE, !.summary = cs[1]]

\* The reduce call resolved: return finalSummary.
reduced(pg, text) ==
    [pg EXCEPT !.reducing = FALSE, !.done = TRUE, !.summary = text]

\* ---------------------------------------------------- processWebResearch
NoResult == [answer |-> NoText, references |-> <<>>]
PendingResponse == [net |-> "pending", status |-> 0, decodable |-> FALSE, data |-> NoData]

\* What a Spinner shows: which line of the program set it, and for what (the
\* search page, the URL or the valid page it names; 0 where it names none).
SpinnerText(line, n) == [line |-> line, n |-> n]

\* One Spinner for the whole plan.
spinnerShared(index) == IF index >= 1 THEN 1 ELSE index

\* `const spinner = spinners[index]`: the Spinner made for the task at index
\* of the plan; a Spinner is named by the index it was made for.
spinnerAt(index) == index

\* A runner that has not run yet.
NewRun(runner, research) ==
    [ runner |-> runner, research |-> research, pc |-> "Start", phases |-> <<>>,
      spinner |-> spinnerAt(research.index), spinnerText |-> SpinnerText("start", 0),
      spinnerWriters |-> {},
      page |-> 0, reading |-> FALSE, searchCalls |-> <<>>, searchHits |-> <<>>, allResults |-> <<>>,
      selectorCalls |-> 0, selectorInput |-> <<>>, relevantUrls |-> <<>>,
      responses |-> <<>>, contents |-> <<>>, outOfOrder |-> FALSE,
      validContents |-> <<>>,
      pages |-> <<>>, synthCalls |-> 0, contentSummaries |-> <<>>,
      aiPrompts |-> <<>>, result |-> NoResult ]

\* A branch of a task: the runner itself ("task"), the fetchWebContent call for
\* relevantUrls[n] ("fetch") or the summarizeContent call for validContents[n]
\* ("summarize").
Branch(run, kind, n) == [task |-> run.research.index, kind |-> kind, n |-> n]

\* `spinner.text = ...` by one branch.  spinnerWriters is history: the branches
\* that have set the text of the runner's Spinner so far.
write(run, branch, text) ==
    [run EXCEPT !.spinnerText = text, !.spinnerWriters = @ \cup {branch}]

\* The same statement run by the branches 1..count of a map callback, one
\* after the other, each up to its first suspension.
writeEach(run, kind, count, line) ==
    IF count = 0 THEN run
    ELSE [run EXCEPT !.spinnerText = SpinnerText(line, count),
                     !.spinnerWriters = @ \cup {Branch(run, kind, n) : n \in 1..count}]

\* The runner moves to a phase.
enter(run, phase) == [run EXCEPT !.pc = phase, !.phases = Append(@, phase)]

\* An exception leaves the runner: its promise rejects.
failed(run) == [run EXCEPT !.pc = "Failed"]

\* A loop with no last page.
pageUnbounded(page) == page >= 1

\* The loop condition of `for (let page = 1; page <= MAX_PAGES; page++)`.
pageInRange(page) == page <= MAX_PAGES

\* The search request for `page` is issued.
requestPage(run, page) ==
    [write(run, Branch(run, "task", 0), SpinnerText("Searching", page))
        EXCEPT !.page = page, !.searchCalls = Append(@, page)]

\* getRelevantUrls is called with everything the search gathered.
select(run) ==
    [write(enter(run, "SelectingURLs"), Branch(run, "task", 0), SpinnerText("Finding", 0))
        EXCEPT !.selectorCalls = @ + 1, !.selectorInput = run.allResults]

\* A test that takes an empty list of results for results.
noResultsField(searchData) == ~searchData.hasResults

\* `if (!searchData.results || searchData.results.length === 0) break`
noResults(searchData) == ~searchData.hasResults \/ Len(searchData.results) = 0

\* processWebResearch from its call to its first suspension.
startWeb(research) ==
    requestPage(enter(NewRun("web", research), "Searching"), 1)

\* `await fetch(...)` of the search request of run.page came to `out`: it threw,
\* or searchRes.json() is called and the runner waits for the body.
searchResponded(run, out) ==
    IF out.net = "raise" THEN failed(run)
    ELSE [run EXCEPT !.reading = TRUE]

\* `await searchRes.json()` came to `out`.
searched(run, out) ==
    IF ~out.decodable THEN failed(run)
    ELSE IF noResults(out)
         THEN invoke(select, [run EXCEPT !.reading = FALSE, !.searchHits = Append(@, 0)])
    ELSE LET more == [run EXCEPT !.reading = FALSE,
                                 !.allResults = @ \o out.results,
                                 !.searchHits = Append(@, Len(out.results))]
         IN IF pageInRange(run.page + 1) THEN requestPage(more, run.page + 1)
            ELSE invoke(select, more)

\* The final generateText call is issued with the page summaries.
synthesize(run) ==
    [write(enter(run, "Synthesizing"), Branch(run, "task", 0), SpinnerText("Generating", 0))
        EXCEPT !.synthCalls = @ + 1,
               !.contentSummaries = [j \in DOMAIN run.pages |-> run.pages[j].summary]]

\* A runner that issues the final call as soon as one page summary is there.
afterSummariesEager(run) ==
    IF run.pages # <<>> /\ \A j \in DOMAIN run.pages : ~run.pages[j].done THEN run
    ELSE synthesize(run)

\* A runner that throws when it has no page summary to answer from.
afterSummariesNeedsPage(run) ==
    IF run.pages = <<>> THEN failed(run)
    ELSE IF \E j \in DOMAIN run.pages : ~run.pages[j].done THEN run
    ELSE synthesize(run)

\* The continuation of the Promise.all of the page summaries: when every page
\* summary is there the final generateText call is issued.
afterSummaries(run) ==
    IF \E j \in DOMAIN run.pages : ~run.pages[j].done THEN run
    ELSE synthesize(run)

\* A runner that goes straight to the final call when no page is valid.
afterFetchSkip(run) ==
    IF \E k \in DOMAIN run.contents : inFlight(run.contents[k]) THEN run
    ELSE LET valid == validContentsOf(run.contents)
         IN IF valid = <<>> THEN invoke(afterSummaries, [run EXCEPT !.validContents = valid])
            ELSE invoke(afterSummaries,
                    [writeEach(enter(run, "Summarizing"), "summarize", Len(valid), "Summarizing")
                        EXCEPT !.validContents = valid,
                               !.pages = [j \in 1..Len(valid) |-> startSummarize(valid[j])]])

\* Every fetch settled: the nulls are filtered out and every valid page is
\* handed to summarizeContent.
afterFetch(run) ==
    IF \E k \in DOMAIN run.contents : inFlight(run.contents[k]) THEN run
    ELSE LET valid == validContentsOf(run.contents)
         IN invoke(afterSummaries,
                [writeEach(enter(run, "Summarizing"), "summarize", Len(valid), "Summarizing")
                    EXCEPT !.validContents = valid,
                           !.pages = [j \in 1..Len(valid) |-> startSummarize(valid[j])]])

\* getRelevantUrls answered `urls`: every one of them is fetched.
selected(run, urls) ==
    invoke(afterFetch, [writeEach(enter(run, "Fetching"), "fetch", Len(urls), "Fetching") EXCEPT
        !.relevantUrls = urls,
        !.responses = [k \in 1..Len(urls) |-> PendingResponse],
        !.contents = [k \in 1..Len(urls) |-> PendingContent]])

\* History: fetchWebContent for relevantUrls[k] returns before that for an
\* earlier URL.
overtakes(run, k) == \E i \in 1..(k - 1) : inFlight(run.contents[i])

\* A runner that collects the pages in the order their fetches settle in.
fetchedPush(run, k, out) ==
    LET c == fetchWebContent(out)
        seen == [run EXCEPT !.responses[k] = out,
                            !.outOfOrder = @ \/ (~inFlight(c) /\ overtakes(run, k))]
        slot == CHOOSE i \in DOMAIN run.contents :
                    /\ inFlight(run.contents[i])
                    /\ \A h \in 1..(i - 1) : ~inFlight(run.contents[h])
    IN IF c.tag = "throw" THEN failed(seen)
       ELSE IF inFlight(c) THEN [seen EXCEPT !.contents[k] = c]
       ELSE invoke(afterFetch,
                 [seen EXCEPT !.contents[k] = run.contents[slot], !.contents[slot] = c])

\* The call of fetchWebContent for relevantUrls[k] went on with `out`, the
\* response or the body of it: it waits for the body, throws, or returns, and
\* Promise.all keeps what it returned at index k.
fetched(run, k, out) ==
    LET c == fetchWebContent(out)
        seen == [run EXCEPT !.responses[k] = out,
                            !.outOfOrder = @ \/ (~inFlight(c) /\ overtakes(run, k))]
    IN IF c.tag = "throw" THEN failed(seen)
       ELSE invoke(afterFetch, [seen EXCEPT !.contents[k] = c])

\* generateText of chunk c of valid page j answered `text`; the branch of page
\* j goes on, and sets the Spinner when it issues its reduce call.
summarized(run, j, c, text) ==
    LET pg == chunkSummarized(run.pages[j], c, text)
        stored == [run EXCEPT !.pages[j] = pg]
    IN IF pg.reducing
       THEN write(stored, Branch(run, "summarize", j), SpinnerText("Combining", j))
       ELSE stored

\* The final generateText call answered: the runner returns.
synthesized(run, answer) ==
    [write(enter(run, "Done"), Branch(run, "task", 0), SpinnerText("succeed", 0)) EXCEPT
        !.result = [answer |-> answer, references |-> referencesOf(run.validContents)]]

\* ----------------------------------------------------- processAiResearch
\* A runner that asks the model about the task's title.
startAiTitled(research) ==
    LET run == enter(NewRun("ai", research), "Asking")
    IN [write(run, Branch(run, "task", 0), SpinnerText("Processing", 0))
            EXCEPT !.aiPrompts = <<research.title>>]

\* generateText({model, prompt: research.query}) is issued.
startAi(research) ==
    LET run == enter(NewRun("ai", research), "Asking")
    IN [write(run, Branch(run, "task", 0), SpinnerText("Processing", 0))
            EXCEPT !.aiPrompts = <<research.query>>]

\* The call answered: return {answer: aiRes.text, references: []}.
answered(run, answer) ==
    [write(enter(run, "Done"), Branch(run, "task", 0), SpinnerText("succeed", 0))
        EXCEPT !.result = [answer |-> answer, references |-> <<>>]]

\* ---------------------------------------------------------- deepResearch
\* A dispatch with the two branches exchanged.
dispatchSwapped(research) ==
    IF research.type = "web" THEN startAi(research) ELSE startWeb(research)

\* research.type === "web" ? processWebResearch(...) : processAiResearch(...)
dispatch(research) ==
    IF research.type = "web" THEN startWeb(research) ELSE startAi(research)

\* plan.researchPlan.map(...): one runner per task, in plan order.
startRunners(p) == [i \in 1..Len(p) |-> dispatch(p[i])]

\* Promise.all keeps the value of its index-th promise at index.
Unsettled == [settled |-> FALSE, value |-> NoResult]
\* A join that keeps the values in the order the promises settle in.
promiseAllPush(values, index, v) ==
    [values EXCEPT ![Cardinality({i \in DOMAIN values : values[i].settled}) + 1] =
        [settled |-> TRUE, value |-> v]]

promiseAllStore(values, index, v) ==
    [values EXCEPT ![index] = [settled |-> TRUE, value |-> v]]
allSettled(values) == \A i \in DOMAIN values : values[i].settled

\* ----------------------------------------------------------------- actions
NoReportIn == [built |-> FALSE, summaries |-> <<>>]
NoFile == [written |-> FALSE, text |-> NoText]

\* deepResearch has been called; the plan's generateObject call is in flight.
Start ==
    /\ pc = "planning"
    /\ plan = <<>>
    /\ runs = <<>>
    /\ summaries = <<>>
    /\ reportIn = NoReportIn
    /\ report = NoText
    /\ file = NoFile
    /\ finished = <<>>
    /\ failure = "none"

\* One task at most, against everything the services may answer.
Init == scope = "task" /\ Start

\* Plans of several tasks, against the short range of answers.
InitPipeline == scope = "pipeline" /\ Start

\* The continuation of the outer Promise.all: the report prompt is built from
\* the values and the final generateText call is issued.
Join(values) ==
    IF allSettled(values)
    THEN pc' = "reporting" /\ reportIn' = [built |-> TRUE,
                                           summaries |-> [i \in DOMAIN values |-> values[i].value]]
    ELSE pc' = pc /\ reportIn' = reportIn

\* The plan arrived: every runner is started, and runs to its first request.
PlanResolved ==
    /\ pc = "planning"
    /\ \E p \in Plans(scope) :
        /\ plan' = p
        /\ runs' = startRunners(p)
        /\ summaries' = [i \in 1..Len(p) |-> Unsettled]
        /\ IF Len(p) = 0
           THEN Join(<<>>)
           ELSE pc' = "researching" /\ reportIn' = reportIn
    /\ UNCHANGED <<scope, report, file, finished, failure>>

\* generateObject threw, or its answer did not fit researchPlanSchema.
PlanFailed ==
    /\ pc = "planning"
    /\ pc' = "failed"
    /\ failure' = "plan"
    /\ UNCHANGED <<scope, plan, runs, summaries, reportIn, report, file, finished>>

\* A join that takes a runner's failure for an empty result and goes on.
StepIsolated(r, nr) ==
    /\ runs' = [runs EXCEPT ![r] = nr]
    /\ IF nr.pc \in {"Failed", "Done"}
       THEN /\ summaries' = promiseAllStore(summaries, r, nr.result)
            /\ Join(summaries')
            /\ finished' = Append(finished, nr.research.index)
            /\ failure' = failure
       ELSE UNCHANGED <<pc, summaries, reportIn, finished, failure>>
    /\ UNCHANGED <<scope, plan, report, file>>

\* Runner r made a step to `nr`.  A runner that returned settles its slot of
\* the outer Promise.all; a runner that threw rejects it, deepResearch and the
\* CLI action with it, and the process ends.
Step(r, nr) ==
    \E next \in {nr} :
        /\ runs' = [runs EXCEPT ![r] = next]
        /\ IF next.pc = "Failed"
           THEN /\ pc' = "failed"
                /\ failure' = "task"
                /\ UNCHANGED <<summaries, reportIn, finished>>
           ELSE IF next.pc = "Done"
           THEN /\ summaries' = promiseAllStore(summaries, r, next.result)
                /\ Join(summaries')
                /\ finished' = Append(finished, next.research.index)
                /\ failure' = failure
           ELSE UNCHANGED <<pc, summaries, reportIn, finished, failure>>
        /\ UNCHANGED <<scope, plan, report, file>>

Running(r, phase) == pc = "researching" /\ r \in DOMAIN runs /\ runs[r].pc = phase

\* The Search Provider answers the request in flight, or the request fails.
\* It answers MaxAnswered requests of a task, which is more than a task makes.
SearchResponded(r) ==
    /\ Running(r, "Searching")
    /\ ~runs[r].reading
    /\ runs[r].page <= MaxAnswered
    /\ \E out \in SearchOutcomes(scope, runs[r].page) :
         Step(r, searchResponded(runs[r], out))

\* The body of the search response arrived and was decoded, or was no JSON.
SearchDecoded(r) ==
    /\ Running(r, "Searching")
    /\ runs[r].reading
    /\ \E out \in SearchOutcomes(scope, runs[r].page) :
        /\ out.net = "ok"
        /\ Step(r, searched(runs[r], out))

SelectResolved(r) ==
    /\ Running(r, "SelectingURLs")
    /\ \E urls \in Selections(scope) : Step(r, selected(runs[r], urls))

\* generateObject of getRelevantUrls threw.
SelectFailed(r) ==
    /\ Running(r, "SelectingURLs")
    /\ Step(r, failed(runs[r]))

\* The Content Fetcher answers the request for relevantUrls[k], or the request
\* fails.
FetchResponded(r) ==
    /\ Running(r, "Fetching")
    /\ \E k \in DOMAIN runs[r].contents :
        /\ runs[r].contents[k].tag = "pending"
        /\ \E out \in FetchOutcomes(scope, runs[r].relevantUrls[k]) :
             Step(r, fetched(runs[r], k, headersOf(out)))

\* The body of the response for relevantUrls[k] arrived and was decoded, or was
\* no JSON.
FetchDecoded(r) ==
    /\ Running(r, "Fetching")
    /\ \E k \in DOMAIN runs[r].contents :
        /\ runs[r].contents[k].tag = "reading"
        /\ \E out \in FetchOutcomes(scope, runs[r].relevantUrls[k]) :
            /\ out.net = "ok"
            /\ out.status = runs[r].responses[k].status
            /\ Step(r, fetched(runs[r], k, out))

\* generateText of chunk c of valid page j answered.
ChunkResolved(r) ==
    /\ Running(r, "Summarizing")
    /\ \E j \in DOMAIN runs[r].pages : \E c \in DOMAIN runs[r].pages[j].chunkSummaries :
        /\ runs[r].pages[j].chunkSummaries[c] = PendingText
        /\ Step(r, invoke(afterSummaries,
                    summarized(runs[r], j, c, Text("map", runs[r].research.index, j, c))))

\* The reduce call of valid page j answered.
ReduceResolved(r) ==
    /\ Running(r, "Summarizing")
    /\ \E j \in DOMAIN runs[r].pages :
        /\ runs[r].pages[j].reducing
        /\ Step(r, invoke(afterSummaries, [runs[r] EXCEPT !.pages[j] =
                    reduced(@, Text("reduce", runs[r].research.index, j, 0))]))

\* A generateText call of summarizeContent threw.
SummarizeFailed(r) ==
    /\ Running(r, "Summarizing")
    /\ Step(r, failed(runs[r]))

SynthResolved(r) ==
    /\ Running(r, "Synthesizing")
    /\ Step(r, synthesized(runs[r], Text("answer", runs[r].research.index, 0, 0)))

SynthFailed(r) ==
    /\ Running(r, "Synthesizing")
    /\ Step(r, failed(runs[r]))

AiResolved(r) ==
    /\ Running(r, "Asking")
    /\ Step(r, answered(runs[r], Text("ai", runs[r].research.index, 0, 0)))

AiFailed(r) ==
    /\ Running(r, "Asking")
    /\ Step(r, failed(runs[r]))

\* The final generateText call answered: deepResearch returns the report and
\* the CLI action starts writing report.md.
ReportResolved ==
    /\ pc = "reporting"
    /\ report' = Text("report", 0, 0, 0)
    /\ pc' = "writing"
    /\ UNCHANGED <<scope, plan, runs, summaries, reportIn, file, finished, failure>>

ReportFailed ==
    /\ pc = "reporting"
    /\ pc' = "failed"
    /\ failure' = "report"
    /\ UNCHANGED <<scope, plan, runs, summaries, reportIn, report, file, finished>>

WriteResolved ==
    /\ pc = "writing"
    /\ file' = [written |-> TRUE, text |-> report]
    /\ pc' = "saved"
    /\ UNCHANGED <<scope, plan, runs, summaries, reportIn, report, finished, failure>>

\* Deno.writeTextFile threw: report.md is untouched, or holds what was written
\* before the error.
WriteFailed ==
    /\ pc = "writing"
    /\ pc' = "failed"
    /\ failure' = "write"
    /\ file' \in {file, [written |-> TRUE, text |-> Text("partial", 0, 0, 0)]}
    /\ UNCHANGED <<scope, plan, runs, summaries, reportIn, report, finished>>

Next ==
    \/ PlanResolved
    \/ PlanFailed
    \/ \E r \in DOMAIN runs : SearchResponded(r)
    \/ \E r \in DOMAIN runs : SearchDecoded(r)
    \/ \E r \in DOMAIN runs : SelectResolved(r)
    \/ \E r \in DOMAIN runs : SelectFailed(r)
    \/ \E r \in DOMAIN runs : FetchResponded(r)
    \/ \E r \in DOMAIN runs : FetchDecoded(r)
    \/ \E r \in DOMAIN runs : ChunkResolved(r)
    \/ \E r \in DOMAIN runs : ReduceResolved(r)
    \/ \E r \in DOMAIN runs : SummarizeFailed(r)
    \/ \E r \in DOMAIN runs : SynthResolved(r)
    \/ \E r \in DOMAIN runs : SynthFailed(r)
    \/ \E r \in DOMAIN runs : AiResolved(r)
    \/ \E r \in DOMAIN runs : AiFailed(r)
    \/ ReportResolved
    \/ ReportFailed
    \/ WriteResolved
    \/ WriteFailed

Spec == Init /\ [][Next]_vars

SpecPipeline == InitPipeline /\ [][Next]_vars

\* Either of the two.
InitAll == scope \in {"task", "pipeline"} /\ Start
SpecAll == InitAll /\ [][Next]_vars

\* Every external call returns or fails in the end: while a call is in flight
\* some call resolves.  Several tasks, or one task and all its search pages.
InitFair == scope \in {"search", "pipeline"} /\ Start
SpecFair == InitFair /\ [][Next]_vars /\ WF_vars(Next)

\* ------------------------------------------------------------------ claims
\* States between the two suspensions of a request.  Task 1 waits for the body
\* of its first search response while task 2, an ai task, has returned.
ReadingSearchBody ==
    /\ Len(runs) = 2
    /\ runs[1].pc = "Searching" /\ runs[1].reading /\ runs[1].searchCalls = <<1>>
    /\ runs[2].runner = "ai" /\ runs[2].pc = "Done"

\* The fetch of the first URL waits for its body when that of the second
\* throws, and the task with it.
ReadingPageBody ==
    /\ Len(runs) = 1
    /\ runs[1].pc = "Failed"
    /\ Len(runs[1].contents) = 2
    /\ runs[1].contents[1] = ReadingContent
    /\ runs[1].responses[1] = Headers(okStatus)
    /\ runs[1].responses[2].net = "raise"

WebRuns == {r \in DOMAIN runs : runs[r].runner = "web"}
RunsOf(i) == {r \in DOMAIN runs : runs[r].research = plan[i]}

\* C1: the result list the final report prompt is built from has one entry per
\* plan task, and entry i is what the runner of plan task i returned, in
\* whatever order the runners returned.
C1_ResultsInPlanOrder ==
    reportIn.built =>
        /\ Len(reportIn.summaries) = Len(plan)
        /\ \A i \in 1..Len(plan) :
            /\ reportIn.summaries[i].answer.task = i
            /\ \E r \in RunsOf(i) :
                runs[r].pc = "Done" /\ reportIn.summaries[i] = runs[r].result

\* A web task and an ai task, the second of which returned first, and the
\* report prompt built.
C1_Witness ==
    /\ reportIn.built
    /\ Len(plan) = 2
    /\ plan[1].type = "web" /\ plan[2].type = "ai"
    /\ finished = <<2, 1>>
    /\ reportIn.summaries[1] = runs[1].result
    /\ reportIn.summaries[2] = runs[2].result
    /\ runs[1].result # runs[2].result

\* C2: once the plan is there every task of it has been started exactly once,
\* on the runner its type names, and no runner exists for anything else.
C2_EveryTaskOnItsRunnerOnce ==
    pc \notin {"planning"} /\ failure # "plan" =>
        /\ Len(runs) = Len(plan)
        /\ \A i \in 1..Len(plan) :
            /\ Cardinality(RunsOf(i)) = 1
            /\ \A r \in RunsOf(i) :
                /\ runs[r].runner = plan[i].type
                /\ runs[r].pc # "Start"
                /\ plan[i].type = "web" =>
                     runs[r].searchCalls # <<>> /\ runs[r].aiPrompts = <<>>
                /\ plan[i].type = "ai" =>
                     runs[r].aiPrompts = <<plan[i].query>> /\ runs[r].searchCalls = <<>>

\* A plan of a web task and an ai task, both started, neither returned yet.
C2_Witness ==
    /\ pc = "researching"
    /\ Len(plan) = 2
    /\ plan[1].type = "web" /\ plan[2].type = "ai"
    /\ runs[1].runner = "web" /\ runs[1].pc = "Searching"
    /\ runs[2].runner = "ai" /\ runs[2].pc = "Asking"

Last(s) == s[Len(s)]

\* A settled page request that failed: it raised, answered with another status
\* than 200, or answered 200 with a body that is no JSON.
FetchFailure(res) ==
    \/ res.net = "raise"
    \/ res.net \in {"headers", "ok"} /\ res.status # okStatus
    \/ res.net = "ok" /\ ~res.decodable

\* C3: a failed fetch of a selected URL is dropped as a page with invalid
\* content is: its slot holds null and the web task does not fail over it.
C3_FetchFailureIsDropped ==
    \A r \in WebRuns : \A k \in DOMAIN runs[r].responses :
        FetchFailure(runs[r].responses[k]) =>
            /\ runs[r].contents[k].tag = "null"
            /\ ~(runs[r].pc = "Failed" /\ Last(runs[r].phases) = "Fetching")

\* C4: a web task never fails in its Searching phase, whatever its search
\* requests come to.
C4_SearchFailureIsOmitted ==
    \A r \in WebRuns : ~(runs[r].pc = "Failed" /\ Last(runs[r].phases) = "Searching")

\* C5: the pages are requested in the order 1, 2, 3, ..., never more than
\* MAX_PAGES of them, none after the first page without a hit; with hits on
\* pages 1 to 3 and none on page 4 exactly the pages 1 to 4 are requested.
C5_PaginationStops ==
    \A r \in WebRuns :
        LET calls == runs[r].searchCalls
            hits == runs[r].searchHits
        IN /\ Len(calls) <= 5
           /\ \A n \in DOMAIN calls : calls[n] = n
           /\ Len(hits) <= Len(calls)
           /\ \A n \in DOMAIN hits : hits[n] = 0 => Len(calls) = n
           /\ hits = <<1, 1, 1, 0>> => calls = <<1, 2, 3, 4>>
           /\ runs[r].pc = "Searching" => Len(calls) = Len(hits) + 1
           /\ runs[r].pc \notin {"Searching", "Failed", "Start"} =>
                Len(calls) = Len(hits) /\ (Len(calls) = 5 \/ Last(hits) = 0)

\* Hits on pages 1 to 3, none on page 4, and the task has gone on to selecting.
C5_Witness ==
    \E r \in WebRuns :
        /\ runs[r].searchHits = <<1, 1, 1, 0>>
        /\ runs[r].searchCalls = <<1, 2, 3, 4>>
        /\ runs[r].pc = "SelectingURLs"

\* Five pages with hits: the task goes on to selecting without a sixth request.
C5_WitnessCap ==
    \E r \in WebRuns :
        /\ runs[r].searchHits = <<1, 1, 1, 1, 1>>
        /\ runs[r].pc = "SelectingURLs"

\* ceiling of n / chunkSize
ChunksNeeded(n) == (n + chunkSize - 1) \div chunkSize

\* C6: summarizeContent makes one model call for a content of at most chunkSize
\* characters and returns its output as it is, without a reduce call; for a
\* content that needs K > 1 chunks it makes K map calls and one reduce call.
C6_SummarizerCallCount ==
    \A r \in WebRuns : \A j \in DOMAIN runs[r].pages :
        LET pg == runs[r].pages[j]
            n == SumLen(pg.content.content)
        IN pg.done =>
            /\ n <= chunkSize =>
                /\ pg.mapCalls = 1
                /\ pg.reduceCalls = 0
                /\ pg.summary = Text("map", runs[r].research.index, j, 1)
            /\ n > chunkSize =>
                /\ pg.mapCalls = ChunksNeeded(n)
                /\ pg.reduceCalls = 1
                /\ pg.summary = Text("reduce", runs[r].research.index, j, 0)

\* A page request that settled with a page fetchWebContent has to accept.
ValidResponse(res) ==
    /\ res.net = "ok" /\ res.status = 200 /\ res.decodable
    /\ res.data.hasContent /\ SumLen(res.data.content) >= 100

ValidSlots(run) == {k \in DOMAIN run.responses : ValidResponse(run.responses[k])}

\* C7: a reference is always the url and title of a page whose request was
\* answered with status 200 and a content of at least 100 characters; a page
\* answered with any other status, with no content or with less than 100
\* characters is in no reference, one of exactly 100 characters is valid.
C7_OnlyValidPagesAreReferenced ==
    \A r \in WebRuns :
        LET run == runs[r] IN
        /\ \A k \in DOMAIN run.contents :
            /\ run.contents[k].tag = "page" =>
                 k \in ValidSlots(run) /\ run.contents[k].data = run.responses[k].data
            /\ run.contents[k].tag = "null" => k \notin ValidSlots(run)
            /\ k \in ValidSlots(run) => run.contents[k].tag = "page"
        /\ run.pc = "Done" =>
            /\ Len(run.result.references) = Cardinality(ValidSlots(run))
            /\ \A j \in DOMAIN run.result.references :
                 \E k \in ValidSlots(run) :
                    /\ run.result.references[j].url = run.responses[k].data.url
                    /\ run.result.references[j].title = run.responses[k].data.title

\* A finished web task with two selected URLs: one answered 404 with a good
\* body, one answered 200 with exactly 100 characters, which is its only
\* reference.
C7_Witness ==
    \E r \in WebRuns :
        /\ runs[r].pc = "Done"
        /\ Len(runs[r].responses) = 2
        /\ runs[r].responses[1].status = 404
        /\ runs[r].contents[1].tag = "null"
        /\ runs[r].responses[2].status = 200
        /\ runs[r].responses[2].data.content = <<100>>
        /\ Len(runs[r].result.references) = 1
        /\ runs[r].result.references[1].url = runs[r].responses[2].data.url

\* The URLs of the hits the Search Provider returned to a run.
HitUrls(run) == {run.allResults[n].url : n \in DOMAIN run.allResults}

\* The search of a run is over and it brought no hit.
NoHits(run) ==
    run.pc \notin {"Start", "Searching", "Failed"} /\ run.allResults = <<>>

\* C8: a web task whose search brought no hit on any page returns a result with
\* no reference, whose answer is the text of the synthesis call.
C8_NoHitsNoReferences ==
    \A r \in WebRuns :
        NoHits(runs[r]) /\ runs[r].pc = "Done" =>
            /\ runs[r].result.references = <<>>
            /\ runs[r].result.answer = Text("answer", runs[r].research.index, 0, 0)

\* C9: every URL in the references of a web task is the URL of a hit the
\* Search Provider returned to that task.
C9_ReferencesAreHits ==
    \A r \in WebRuns :
        runs[r].pc = "Done" =>
            \A j \in DOMAIN runs[r].result.references :
                runs[r].result.references[j].url \in HitUrls(runs[r])

\* C10: when plan generation fails no runner has been started; when a runner
\* fails the run has failed and the report call was never issued; and after a
\* failure of the plan, of a runner or of the report call nothing goes on and
\* report.md is not written.
C10_FailureIsFatal ==
    /\ failure = "plan" => runs = <<>> /\ plan = <<>>
    /\ (\E r \in DOMAIN runs : runs[r].pc = "Failed") =>
         failure = "task" /\ ~reportIn.built /\ report = NoText
    /\ failure \in {"plan", "task", "report"} =>
         pc = "failed" /\ ~file.written /\ ~ENABLED Next

\* A run that failed over the second task's runner after the first returned.
C10_Witness ==
    /\ failure = "task"
    /\ Len(runs) = 2
    /\ runs[1].pc = "Done"
    /\ runs[2].pc = "Failed"
    /\ ~file.written

AiRuns == {r \in DOMAIN runs : runs[r].runner = "ai"}

\* C11: the Model-Only runner makes one Generative Text Service call, with the
\* task's query as its prompt, makes no search, URL selection, fetch, summarizer
\* or synthesis call, and what it returns is the text of that call with an
\* empty references list.
C11_ModelOnlyRunner ==
    \A r \in AiRuns :
        /\ runs[r].research.type = "ai"
        /\ runs[r].aiPrompts = <<runs[r].research.query>>
        /\ runs[r].searchCalls = <<>>
        /\ runs[r].selectorCalls = 0
        /\ runs[r].responses = <<>>
        /\ runs[r].pages = <<>>
        /\ runs[r].synthCalls = 0
        /\ runs[r].pc \in {"Asking", "Done", "Failed"}
        /\ runs[r].pc = "Done" =>
             /\ runs[r].result.references = <<>>
             /\ runs[r].result.answer = Text("ai", runs[r].research.index, 0, 0)
        /\ runs[r].pc # "Done" => runs[r].result = NoResult

\* An ai task whose runner returned, and the report call issued from its result.
C11_Witness ==
    /\ Len(runs) = 1
    /\ runs[1].runner = "ai"
    /\ runs[1].pc = "Done"
    /\ runs[1].aiPrompts = <<plan[1].query>>
    /\ reportIn.built
    /\ reportIn.summaries[1].references = <<>>

\* The final report call has been issued.
ReportIssued == pc \in {"reporting", "writing", "saved"} \/ failure \in {"report", "write"}

\* C12: every stage waits for the whole stage before it.  The report call is
\* issued only when every runner has returned, and from all their results; a
\* web task hands no page to the summarizer while a fetch of it is unresolved;
\* it issues the synthesis call only when every page summary is there, and
\* with all of them; the summarizer issues the reduce call only when every
\* chunk summary of the page is there.
C12_StagesAreBarriers ==
    /\ (ReportIssued \/ reportIn.built) =>
          /\ reportIn.built
          /\ \A r \in DOMAIN runs : runs[r].pc = "Done" /\ summaries[r].settled
    /\ \A r \in WebRuns :
        LET run == runs[r]
            fetching == \E k \in DOMAIN run.contents : inFlight(run.contents[k])
        IN /\ fetching => run.pages = <<>> /\ run.synthCalls = 0
           /\ run.pc \in {"Summarizing", "Synthesizing", "Done"} =>
                /\ ~fetching
                /\ Len(run.pages) = Len(validContentsOf(run.contents))
           /\ run.synthCalls > 0 =>
                /\ \A j \in DOMAIN run.pages : run.pages[j].done
                /\ run.contentSummaries = [j \in DOMAIN run.pages |-> run.pages[j].summary]
                /\ \A j \in DOMAIN run.pages : run.contentSummaries[j] # PendingText
           /\ \A j \in DOMAIN run.pages :
                (run.pages[j].reduceCalls > 0 \/ run.pages[j].done) =>
                    \A c \in DOMAIN run.pages[j].chunkSummaries :
                        run.pages[j].chunkSummaries[c] # PendingText

\* Two web tasks that both went through every barrier: each fetched a page of
\* two chunks, reduced the two chunk summaries and synthesized, the second
\* returned first, and the report call was issued.
C12_Witness ==
    /\ reportIn.built
    /\ Len(runs) = 2
    /\ finished = <<2, 1>>
    /\ \A r \in {1, 2} :
        /\ runs[r].runner = "web"
        /\ runs[r].synthCalls = 1
        /\ Len(runs[r].pages) = 1
        /\ runs[r].pages[1].mapCalls = 2
        /\ runs[r].pages[1].reduceCalls = 1

\* A web task in the middle of each stage in turn: one fetch of two resolved.
C12_WitnessFetching ==
    /\ Len(runs) = 1
    /\ runs[1].pc = "Fetching"
    /\ Len(runs[1].contents) = 2
    /\ runs[1].contents[2].tag = "page"
    /\ runs[1].contents[1].tag = "pending"

WebPhases == <<"Searching", "SelectingURLs", "Fetching", "Summarizing", "Synthesizing", "Done">>
IsPrefix(s, t) == Len(s) <= Len(t) /\ \A i \in 1..Len(s) : s[i] = t[i]

\* The phases a web task has been in are the first phases of the list, in its
\* order, and its calls belong to their phases.
C13_Order ==
    \A r \in WebRuns :
        LET run == runs[r]
        IN /\ run.phases # <<>>
           /\ IsPrefix(run.phases, WebPhases)
           /\ run.pc \in {Last(run.phases), "Failed"}
           /\ run.pc = "Done" => run.phases = WebPhases
           /\ run.selectorCalls = (IF Len(run.phases) >= 2 THEN 1 ELSE 0)
           /\ Len(run.phases) = 1 /\ run.pc # "Failed" =>
                Len(run.searchHits) + 1 = Len(run.searchCalls)
           /\ Len(run.phases) >= 2 =>
                /\ Len(run.searchHits) = Len(run.searchCalls)
                /\ run.selectorInput = run.allResults
           /\ Len(run.phases) <= 2 => run.responses = <<>> /\ run.relevantUrls = <<>>

\* A step of a web task moves along the list of phases or fails; once the
\* selector has been called no search call follows, and the URLs it answered
\* are fetched at once and never changed.
C13_Step ==
    \A r \in DOMAIN runs : runs[r].runner = "web" =>
        /\ IsPrefix(runs[r].phases, runs'[r].phases)
        /\ runs'[r].selectorCalls >= runs[r].selectorCalls
        /\ runs[r].selectorCalls = 1 =>
             /\ runs'[r].searchCalls = runs[r].searchCalls
             /\ runs'[r].allResults = runs[r].allResults
        /\ Len(runs[r].phases) >= 3 =>
             /\ runs'[r].relevantUrls = runs[r].relevantUrls
             /\ Len(runs'[r].responses) = Len(runs[r].responses)

\* C13: every web task goes through Searching, SelectingURLs, Fetching,
\* Summarizing, Synthesizing, Done in that order, skipping none and returning
\* to none until it is Done or fails; the URL Relevance Selector is called once,
\* after the last search call has resolved and before any fetch is issued.
C13_PhasesInOrder == []C13_Order /\ [][C13_Step]_vars

\* A web task that is Done after three search pages, two fetched pages and
\* their summaries.
C13_Witness ==
    /\ Len(runs) = 1
    /\ runs[1].runner = "web"
    /\ runs[1].pc = "Done"
    /\ runs[1].phases = WebPhases
    /\ Len(runs[1].searchCalls) = 3
    /\ runs[1].selectorCalls = 1
    /\ Len(runs[1].responses) = 2
    /\ Len(runs[1].pages) = 2

\* A web task that is Done though the selector answered with no URL.
C13_WitnessNoUrl ==
    /\ Len(runs) = 1
    /\ runs[1].pc = "Done"
    /\ runs[1].phases = WebPhases
    /\ runs[1].relevantUrls = <<>>

RECURSIVE ReferencesFrom(_, _)
\* One {url, title} per response from slot k on that is a valid page, in the
\* order of the slots, which is the order of the selected URLs.
ReferencesFrom(responses, k) ==
    IF k > Len(responses) THEN <<>>
    ELSE (IF ValidResponse(responses[k])
          THEN << [url |-> responses[k].data.url, title |-> responses[k].data.title] >>
          ELSE <<>>) \o ReferencesFrom(responses, k + 1)

\* C14: the references a web task returns are the {url, title} of the pages
\* its fetches produced, one per selected URL whose page was valid, in the
\* order the selector returned the URLs, in whatever order the fetches
\* settled; a URL selected twice and fetched validly twice is there twice.
C14_ReferencesInSelectorOrder ==
    \A r \in WebRuns :
        /\ Len(runs[r].responses) = Len(runs[r].relevantUrls)
        /\ runs[r].pc = "Done" =>
             runs[r].result.references = ReferencesFrom(runs[r].responses, 1)

\* Two different URLs selected, the page of the second fetched before that of
\* the first, both valid: the references are those of the first, then of the
\* second.
C14_Witness ==
    /\ Len(runs) = 1
    /\ runs[1].pc = "Done"
    /\ runs[1].relevantUrls = <<HitUrl(1), OtherUrl>>
    /\ runs[1].outOfOrder
    /\ runs[1].result.references =
          << [url |-> HitUrl(1), title |-> TitleOf(HitUrl(1))],
             [url |-> OtherUrl, title |-> TitleOf(OtherUrl)] >>

\* One URL selected twice and fetched validly twice: two equal references.
C14_WitnessTwice ==
    /\ Len(runs) = 1
    /\ runs[1].pc = "Done"
    /\ runs[1].relevantUrls = <<HitUrl(1), HitUrl(1)>>
    /\ Len(runs[1].result.references) = 2
    /\ runs[1].result.references[1] = runs[1].result.references[2]
    /\ runs[1].result.references[1].url = HitUrl(1)

\* The selector has answered, every fetch has settled, and none gave a page.
NoValidPage(run) ==
    /\ Len(run.phases) >= 3
    /\ \A k \in DOMAIN run.contents : run.contents[k].tag = "null"

\* C15: a web task whose selector answered with no URL, or whose fetches were
\* all dropped as invalid, calls the summarizer for nothing, issues the
\* synthesis call once, with an empty list of summaries, and fails only if
\* that call throws; when it answers the task is Done with that answer and no
\* reference.
C15_NoPageStillSynthesizes ==
    \A r \in WebRuns :
        LET run == runs[r] IN
        NoValidPage(run) =>
            /\ run.validContents = <<>>
            /\ run.pages = <<>>
            /\ run.synthCalls = 1
            /\ run.contentSummaries = <<>>
            /\ Last(run.phases) \in {"Synthesizing", "Done"}
            /\ run.pc = "Synthesizing" /\ pc = "researching" => ENABLED SynthResolved(r)
            /\ run.pc = "Done" =>
                 /\ run.result.references = <<>>
                 /\ run.result.answer = Text("answer", run.research.index, 0, 0)

\* Two URLs selected, one answered 404 and one too short a page: the task is
\* Done with no reference after one synthesis call.
C15_Witness ==
    /\ Len(runs) = 1
    /\ runs[1].runner = "web"
    /\ runs[1].pc = "Done"
    /\ Len(runs[1].contents) = 2
    /\ NoValidPage(runs[1])
    /\ runs[1].responses[1].status = 404
    /\ runs[1].responses[2].status = 200
    /\ runs[1].synthCalls = 1
    /\ runs[1].result.references = <<>>

\* The selector answered with no URL and the task is Done.
C15_WitnessNoUrl ==
    /\ Len(runs) = 1
    /\ runs[1].runner = "web"
    /\ runs[1].pc = "Done"
    /\ runs[1].selectorCalls = 1
    /\ runs[1].relevantUrls = <<>>
    /\ runs[1].synthCalls = 1
    /\ runs[1].result.references = <<>>

RECURSIVE Joined(_)
\* chunks.join(""): the chunks one after the other as one run-length string,
\* neighbouring runs of the same kind made one.
Joined(chunks) ==
    IF chunks = <<>> THEN <<>>
    ELSE LET rest == Joined(Tail(chunks))
             first == Head(chunks)
         IN IF first = <<>> THEN rest
            ELSE IF rest # <<>> /\ (Last(first) > 0) = (Head(rest) > 0)
                 THEN SubSeq(first, 1, Len(first) - 1)
                        \o <<Last(first) + Head(rest)>> \o Tail(rest)
            ELSE first \o rest

\* C16: the chunks summarizeContent cuts a content into, one after the other,
\* are the content; every chunk but the last has chunkSize characters and the
\* last has between 1 and chunkSize.
C16_ChunksCoverContent ==
    \A r \in WebRuns : \A j \in DOMAIN runs[r].pages :
        LET pg == runs[r].pages[j] IN
        /\ Joined(pg.chunks) = pg.content.content
        /\ pg.chunks # <<>>
        /\ \A c \in 1..(Len(pg.chunks) - 1) : SumLen(pg.chunks[c]) = chunkSize
        /\ SumLen(Last(pg.chunks)) \in 1..chunkSize

\* What does hold of the chunks: each has between 1 and chunkSize characters,
\* none of them a line terminator, and together they are the content without
\* its line terminators, cut at them.
C16_ChunksCoverLines ==
    \A r \in WebRuns : \A j \in DOMAIN runs[r].pages :
        LET pg == runs[r].pages[j]
            text == pg.content.content
        IN /\ \A c \in DOMAIN pg.chunks :
                /\ Len(pg.chunks[c]) = 1
                /\ pg.chunks[c][1] \in 1..chunkSize
           /\ SumLen(Joined(pg.chunks)) =
                SumLen(text) - SumLen(SelectSeq(text, LAMBDA n : n < 0))

\* A page of chunkSize + 1 characters on one line was cut into a chunk of
\* chunkSize characters and one of a single character.
C16_WitnessOneLine ==
    \E r \in WebRuns : \E j \in DOMAIN runs[r].pages :
        /\ runs[r].pages[j].content.content = <<chunkSize + 1>>
        /\ runs[r].pages[j].chunks = << <<chunkSize>>, <<1>> >>
        /\ Joined(runs[r].pages[j].chunks) = <<chunkSize + 1>>

\* The branches of one kind that have set the text of the Spinner of run r.
\* The fetchWebContent calls of a task are all in flight together, and so are
\* its summarizeContent calls.
SpinnerWritersOf(r, kind) == {b \in runs[r].spinnerWriters : b.kind = kind}

\* C17 as it stands: no object is written by two branches that run
\* concurrently; of the fetches of a task at most one sets the text of the
\* task's Spinner, and so of its page summarizations.
C17_NoObjectHasTwoWriters ==
    \A r \in DOMAIN runs :
        /\ Cardinality(SpinnerWritersOf(r, "fetch")) <= 1
        /\ Cardinality(SpinnerWritersOf(r, "summarize")) <= 1

\* No two tasks have one Spinner, and the text of a task's Spinner is set by
\* the branches of that task only.
C17_OwnSpinner ==
    /\ \A r1, r2 \in DOMAIN runs : r1 # r2 => runs[r1].spinner # runs[r2].spinner
    /\ \A r \in DOMAIN runs : \A b \in runs[r].spinnerWriters :
        /\ b.task = runs[r].research.index
        /\ b.kind = "fetch" => b.n \in DOMAIN runs[r].relevantUrls
        /\ b.kind = "summarize" => b.n \in DOMAIN runs[r].validContents

\* A step is the step of one task and changes the state of no other; what a
\* branch delivered is never written again: the value of a settled fetch, of
\* an answered chunk, of a summarized page and of a returned task stay.
C17_OwnSlots ==
    /\ runs # <<>> =>
          /\ DOMAIN runs' = DOMAIN runs
          /\ Cardinality({r \in DOMAIN runs : runs'[r] # runs[r]}) <= 1
    /\ \A r \in DOMAIN summaries :
          summaries[r].settled => summaries'[r] = summaries[r]
    /\ \A r \in DOMAIN runs :
        /\ \A k \in DOMAIN runs[r].contents :
              ~inFlight(runs[r].contents[k]) =>
                  runs'[r].contents[k] = runs[r].contents[k]
        /\ runs[r].pages # <<>> => DOMAIN runs'[r].pages = DOMAIN runs[r].pages
        /\ \A j \in DOMAIN runs[r].pages :
            /\ runs'[r].pages[j].chunks = runs[r].pages[j].chunks
            /\ runs[r].pages[j].done => runs'[r].pages[j] = runs[r].pages[j]
            /\ \A c \in DOMAIN runs[r].pages[j].chunkSummaries :
                  runs[r].pages[j].chunkSummaries[c] # PendingText =>
                      runs'[r].pages[j].chunkSummaries[c] = runs[r].pages[j].chunkSummaries[c]

\* C17, amended: the results of concurrent branches are never written by two
\* of them: every task, fetch, page summarization and chunk summarization
\* delivers into its own slot, once, and no task writes the state or the
\* Spinner of another.  The one object several concurrent branches write is
\* the Spinner of their own task, whose text every fetch and every page
\* summarization of the task sets.
C17_OnlyOwnSpinnerIsShared == []C17_OwnSpinner /\ [][C17_OwnSlots]_vars

\* Two URLs selected and both fetches in flight: both have set the text of the
\* task's Spinner, which shows the URL of the second.
C17_Witness ==
    /\ Len(runs) = 1
    /\ runs[1].pc = "Fetching"
    /\ Len(runs[1].contents) = 2
    /\ \A k \in {1, 2} : runs[1].contents[k].tag = "pending"
    /\ SpinnerWritersOf(1, "fetch") = {Branch(runs[1], "fetch", 1), Branch(runs[1], "fetch", 2)}
    /\ runs[1].spinnerText = SpinnerText("Fetching", 2)

\* Two pages being summarized: the summarization of the second page is still
\* waiting for a chunk while that of the first sets the Spinner for its reduce
\* call.
C17_WitnessSummarizing ==
    /\ Len(runs) = 1
    /\ runs[1].pc = "Summarizing"
    /\ Len(runs[1].pages) = 2
    /\ runs[1].pages[1].reducing
    /\ ~runs[1].pages[2].done /\ ~runs[1].pages[2].reducing
    /\ runs[1].spinnerText = SpinnerText("Combining", 1)
    /\ Cardinality(SpinnerWritersOf(1, "summarize")) = 2

\* Two tasks running together, each having set the text of its own Spinner.
C17_WitnessTasks ==
    /\ Len(runs) = 2
    /\ pc = "researching"
    /\ runs[1].spinner # runs[2].spinner
    /\ runs[1].spinnerText = SpinnerText("Fetching", 1)
    /\ runs[2].spinnerText = SpinnerText("Processing", 0)

\* deepResearch has returned the report, or the run has ended in failure.
Terminated == pc \in {"writing", "saved", "failed"}

\* C18: when every external call returns or fails in the end, deepResearch
\* returns the report or the run ends in failure, and no task is left in the
\* Searching phase of a run that goes on.
C18_Terminates ==
    /\ <>Terminated
    /\ \A r \in 1..MaxTasks : <>[]~Running(r, "Searching")

\* A web task searched all MAX_PAGES pages, each with hits, and its run came
\* to the report.
C18_Witness ==
    /\ pc = "saved"
    /\ Len(runs) = 1
    /\ runs[1].runner = "web"
    /\ runs[1].searchCalls = <<1, 2, 3, 4, 5>>
    /\ \A n \in 1..MAX_PAGES : runs[1].searchHits[n] > 0

\* A run of two tasks that ended because one of them failed while the other
\* was still searching.
C18_WitnessFailed ==
    /\ pc = "failed"
    /\ Len(runs) = 2
    /\ runs[1].pc = "Failed"
    /\ runs[2].pc = "Searching"

====
